---- MODULE Spec2Model ----
(***************************************************************************)
(* A model of the in-memory search server (src/search_server.h,            *)
(* src/search_server.cpp): the document store documents_, the inverted     *)
(* index word_to_document_freqs_, the id registry document_ids_, and the   *)
(* operations that add, remove, match and rank documents.                  *)
(*                                                                         *)
(* Text is a sequence of one-character strings; a word is such a sequence  *)
(* too.  Map keys are words compared by content.  Term frequencies and     *)
(* relevances are fixed-point integers (see TFScale, LnTable).             *)
(***************************************************************************)
EXTENDS Integers, Sequences, FiniteSets, TLC

VARIABLES
    stop_words,              \* SearchServer::stop_words_
    documents,               \* SearchServer::documents_ : id -> DocumentData
    word_to_document_freqs,  \* SearchServer::word_to_document_freqs_ : word -> (id -> freq)
    document_ids,            \* SearchServer::document_ids_
    last,                    \* the last call of the public interface and how it ended
    \* One call under the parallel policy, while its for_each tasks run:
    run,                     \* the call: its operation, its parsed query, its arguments
    phase,                   \* the for_each the call is in, "idle" between calls
    tasks,                   \* task -> its position and what it has read
    document_to_relevance,   \* ConcurrentMap: bucket -> (id -> value)
    locks,                   \* ConcurrentMap: bucket -> the task holding its mutex, or "free"
    matched_documents,       \* FindAllDocuments: the result vector
    index,                   \* FindAllDocuments: std::atomic_int index
    matched_words            \* MatchDocument: the vector the lambdas share

serverVars == <<stop_words, documents, word_to_document_freqs, document_ids>>

indexVars == <<documents, word_to_document_freqs, document_ids>>

callVars == <<run, phase, tasks, document_to_relevance, locks,
              matched_documents, index, matched_words>>

vars == <<stop_words, documents, word_to_document_freqs, document_ids, last,
          run, phase, tasks, document_to_relevance, locks,
          matched_documents, index, matched_words>>

----------------------------------------------------------------------------
(* Bounds and input sets                                                   *)

\* Document ids offered to the interface are -1 .. MaxDocId.
MaxDocId == 1

DocIds == 0..MaxDocId

InputIds == (-1)..MaxDocId

\* The code point of a character; '\t' stands for the control characters.
CharCode(c) ==
    CASE c = "\t" -> 9
      [] c = " "  -> 32
      [] c = "-"  -> 45
      [] c = "a"  -> 97
      [] c = "b"  -> 98
      [] c = "c"  -> 99
      [] c = "s"  -> 115

\* The text the constructor is given: "s  s" (a repeated stop word and an
\* empty string between the two spaces).
StopWordTexts == { <<"s", " ", " ", "s">> }

\* Document texts: "s a", "a b", "b b a", "" and "b a\t" (a control character
\* in the last word).
DocTexts ==
    { <<"s", " ", "a">>,
      <<"a", " ", "b">>,
      <<"b", " ", "b", " ", "a">>,
      <<>>,
      <<"b", " ", "a", "\t">> }

Statuses == {"ACTUAL", "BANNED"}

\* The rating vector of every added document: {1, 2, 4} (mean 2.33..).
RatingInputs == { <<1, 2, 4>> }

\* Raw queries: "a b", "a -b", "b c" and "a -c" (c is in no document),
\* "-a s" (a minus-term and a stop word) and "a -" (a bare minus sign).
QueryTexts ==
    { <<"a", " ", "b">>,
      <<"a", " ", "-", "b">>,
      <<"b", " ", "c">>,
      <<"a", " ", "-", "c">>,
      <<"-", "a", " ", "s">>,
      <<"a", " ", "-">> }

\* Document predicates: the overload for a status, and a lambda of a caller.
Predicates == {"ACTUAL", "even_id"}

----------------------------------------------------------------------------
(* Maps                                                                    *)

EmptyMap == [x \in {} |-> 0]

\* m[k] = v, inserting k when it is absent (std::map::operator[] and assignment).
MapPut(m, k, v) == [x \in (DOMAIN m) \cup {k} |-> IF x = k THEN v ELSE m[x]]

\* std::map::erase(key)
MapErase(m, k) == [x \in (DOMAIN m) \ {k} |-> m[x]]

\* The value operator[] yields: the stored one, or a value-initialised one.
MapAtOr(m, k, default) == IF k \in DOMAIN m THEN m[k] ELSE default

\* The map after operator[] looked the keys up: an absent key is inserted.
LookUpInserting(m, keys) ==
    [k \in (DOMAIN m) \cup keys |-> MapAtOr(m, k, EmptyMap)]

\* The map after at(key), count(key) or find(key) looked the keys up: the
\* const lookups insert nothing.
LookUp(m, keys) == m

----------------------------------------------------------------------------
(* String processing                                                       *)

\* text.find(' '): the first index of a space, or 0 for npos.
FindSpace(text) ==
    IF \E i \in 1..Len(text) : text[i] = " "
    THEN CHOOSE i \in 1..Len(text) :
            /\ text[i] = " "
            /\ \A j \in 1..(i - 1) : text[j] # " "
    ELSE 0

RECURSIVE SplitIntoWords(_)
SplitIntoWords(text) ==
    LET space == FindSpace(text) IN
    IF space = 0
    THEN <<text>>
    ELSE <<SubSeq(text, 1, space - 1)>>
            \o SplitIntoWords(SubSeq(text, space + 1, Len(text)))

MakeUniqueNonEmptyStrings(strings) ==
    { strings[i] : i \in { j \in 1..Len(strings) : strings[j] # <<>> } }

IsValidWord(word) ==
    ~ \E i \in 1..Len(word) :
        CharCode(word[i]) >= 0 /\ CharCode(word[i]) < CharCode(" ")

IsStopWord(word) == word \in stop_words

\* [error |-> TRUE] when a word is invalid, else the words that are no stop words.
RECURSIVE FilterWords(_, _, _)
FilterWords(all, i, words) ==
    IF i > Len(all) THEN [error |-> FALSE, words |-> words]
    ELSE IF ~IsValidWord(all[i]) THEN [error |-> TRUE, words |-> <<>>]
    ELSE IF ~IsStopWord(all[i]) THEN FilterWords(all, i + 1, Append(words, all[i]))
    ELSE FilterWords(all, i + 1, words)

SplitIntoWordsNoStop(text) == FilterWords(SplitIntoWords(text), 1, <<>>)

RECURSIVE SumSeq(_)
SumSeq(s) == IF s = <<>> THEN 0 ELSE Head(s) + SumSeq(Tail(s))

\* Integer division of C++: the quotient truncated toward zero.
TruncDiv(a, b) == IF a >= 0 THEN a \div b ELSE -((-a) \div b)

ComputeAverageRating(ratings) ==
    IF ratings = <<>> THEN 0 ELSE TruncDiv(SumSeq(ratings), Len(ratings))

----------------------------------------------------------------------------
(* Construction                                                            *)

NoCall == [op |-> "none", policy |-> "seq", id |-> -1, query |-> <<>>,
           pred |-> "", found |-> FALSE, outcome |-> "ok", what |-> "",
           docs |-> <<>>, words |-> <<>>, status |-> ""]

NoRun == [op |-> "none", id |-> -1, raw_query |-> <<>>, pred |-> "",
          plus_words |-> {}, minus_words |-> {}]

\* No call under the parallel policy is running.
CallIdle ==
    /\ run = NoRun
    /\ phase = "idle"
    /\ tasks = <<>>
    /\ document_to_relevance = <<>>
    /\ locks = <<>>
    /\ matched_documents = <<>>
    /\ index = 0
    /\ matched_words = <<>>

\* SearchServer(stop_words_text): the words of the text, unique and non-empty;
\* the constructor throws when one of them is no valid word.
Constructed(stop_words_text) ==
    /\ stop_words = MakeUniqueNonEmptyStrings(SplitIntoWords(stop_words_text))
    /\ \A word \in stop_words : IsValidWord(word)
    /\ documents = <<>>
    /\ word_to_document_freqs = <<>>
    /\ document_ids = {}

Init ==
    /\ \E stop_words_text \in StopWordTexts : Constructed(stop_words_text)
    /\ last = NoCall
    /\ CallIdle

----------------------------------------------------------------------------
(* Observers                                                               *)

GetDocumentCount == Cardinality(DOMAIN documents)

Ids == document_ids

GetWordFrequencies(document_id) ==
    IF document_id \in DOMAIN documents
    THEN documents[document_id].word_to_freqs
    ELSE EmptyMap

\* A call of GetDocumentCount(): documents_.size().
GetDocumentCountCall ==
    /\ phase = "idle"
    /\ last' = [NoCall EXCEPT !.op = "GetDocumentCount"]
    /\ UNCHANGED <<serverVars, callVars>>

\* A call of GetWordFrequencies(document_id): documents_.count and documents_.at.
GetWordFrequenciesCall(document_id) ==
    /\ phase = "idle"
    /\ documents' = LookUp(documents, {document_id})
    /\ last' = [NoCall EXCEPT !.op = "GetWordFrequencies", !.id = document_id,
                              !.found = (document_id \in DOMAIN documents)]
    /\ UNCHANGED <<stop_words, word_to_document_freqs, document_ids, callVars>>

----------------------------------------------------------------------------
(* AddDocument                                                             *)

\* The fixed-point value of 1.0: term frequencies are multiples of 1/TFScale.
TFScale == 60

\* AddWords with the document's own frequency assigned, not accumulated.
RECURSIVE AddWordsAssigning(_, _, _, _, _, _)
AddWordsAssigning(freqs, word_to_freqs, words, i, document_id, inv_word_count) ==
    IF i > Len(words)
    THEN [word_to_document_freqs |-> freqs, word_to_freqs |-> word_to_freqs]
    ELSE LET word   == words[i]
             bucket == MapAtOr(freqs, word, EmptyMap)
         IN AddWordsAssigning(
               MapPut(freqs, word,
                      MapPut(bucket, document_id,
                             MapAtOr(bucket, document_id, 0) + inv_word_count)),
               MapPut(word_to_freqs, word, inv_word_count),
               words, i + 1, document_id, inv_word_count)

\* The loop over the words: both maps get inv_word_count per occurrence.
RECURSIVE AddWords(_, _, _, _, _, _)
AddWords(freqs, word_to_freqs, words, i, document_id, inv_word_count) ==
    IF i > Len(words)
    THEN [word_to_document_freqs |-> freqs, word_to_freqs |-> word_to_freqs]
    ELSE LET word   == words[i]
             bucket == MapAtOr(freqs, word, EmptyMap)
         IN AddWords(
               MapPut(freqs, word,
                      MapPut(bucket, document_id,
                             MapAtOr(bucket, document_id, 0) + inv_word_count)),
               MapPut(word_to_freqs, word,
                      MapAtOr(word_to_freqs, word, 0) + inv_word_count),
               words, i + 1, document_id, inv_word_count)

\* documents_.emplace(...): the document is stored, with no word frequencies
\* yet, before its text is split into words.
EmplaceDocument(docs, document_id, document, status, ratings) ==
    MapPut(docs, document_id,
           [rating |-> ComputeAverageRating(ratings),
            status |-> status,
            data |-> document,
            word_to_freqs |-> EmptyMap])

\* The members after AddDocument, given as a record, and how the call ended.
AddDocumentTo(server, document_id, document, status, ratings) ==
    IF document_id < 0 \/ document_id \in DOMAIN server.documents
    THEN [server EXCEPT !.outcome = "invalid_argument",
                        !.what = "Invalid document_id"]
    ELSE LET emplaced == EmplaceDocument(server.documents, document_id, document,
                                         status, ratings)
             split    == SplitIntoWordsNoStop(emplaced[document_id].data)
         IN IF split.error
            THEN [server EXCEPT !.documents = emplaced,
                                !.outcome = "invalid_argument",
                                !.what = "Word is invalid"]
            ELSE LET words == split.words
                     inv_word_count ==
                         IF Len(words) = 0 THEN 0 ELSE TFScale \div Len(words)
                     added == AddWords(server.word_to_document_freqs, EmptyMap,
                                       words, 1, document_id, inv_word_count)
                 IN [server EXCEPT
                        !.word_to_document_freqs = added.word_to_document_freqs,
                        !.documents = [emplaced EXCEPT
                            ![document_id].word_to_freqs = added.word_to_freqs],
                        !.document_ids = @ \cup {document_id},
                        !.outcome = "ok",
                        !.what = ""]

Server ==
    [documents |-> documents,
     word_to_document_freqs |-> word_to_document_freqs,
     document_ids |-> document_ids,
     outcome |-> "ok",
     what |-> ""]

AddDocument(document_id, document, status, ratings) ==
    \E after \in { AddDocumentTo(Server, document_id, document, status, ratings) } :
    /\ phase = "idle"
    /\ documents' = after.documents
    /\ word_to_document_freqs' = after.word_to_document_freqs
    /\ document_ids' = after.document_ids
    /\ last' = [NoCall EXCEPT !.op = "AddDocument", !.id = document_id,
                              !.outcome = after.outcome, !.what = after.what]
    /\ UNCHANGED <<stop_words, callVars>>

----------------------------------------------------------------------------
(* RemoveDocument                                                          *)

\* EraseWords that empties the bucket of each word of the document.
RECURSIVE EraseWordsWithBucket(_, _, _)
EraseWordsWithBucket(freqs, words, document_id) ==
    IF words = {} THEN freqs
    ELSE LET word == CHOOSE w \in words : TRUE
         IN EraseWordsWithBucket(MapPut(freqs, word, EmptyMap),
                                 words \ {word}, document_id)

\* EraseWords with the loop left out.
EraseWordsSkipped(freqs, words, document_id) == freqs

\* The loop over the document's words: erase the id from each word's bucket.
RECURSIVE EraseWords(_, _, _)
EraseWords(freqs, words, document_id) ==
    IF words = {} THEN freqs
    ELSE LET word == CHOOSE w \in words : TRUE
         IN EraseWords(
               MapPut(freqs, word,
                      MapErase(MapAtOr(freqs, word, EmptyMap), document_id)),
               words \ {word}, document_id)

RemoveDocument(document_id) ==
    LET call == [NoCall EXCEPT !.op = "RemoveDocument", !.id = document_id] IN
    /\ phase = "idle"
    /\ IF document_id \notin DOMAIN documents
       THEN /\ last' = call
            /\ UNCHANGED indexVars
       ELSE /\ word_to_document_freqs' =
                   EraseWords(word_to_document_freqs,
                              DOMAIN documents[document_id].word_to_freqs,
                              document_id)
            /\ documents' = MapErase(documents, document_id)
            /\ document_ids' = document_ids \ {document_id}
            /\ last' = [call EXCEPT !.found = TRUE]
    /\ UNCHANGED <<stop_words, callVars>>

----------------------------------------------------------------------------
(* Query parsing                                                           *)

\* ParseQueryWord that tests the word for a stop word with its minus sign on.
ParseQueryWordUnstripped(text) ==
    IF text = <<>>
    THEN [error |-> TRUE, data |-> <<>>, is_minus |-> FALSE, is_stop |-> FALSE]
    ELSE LET is_minus == (text[1] = "-")
             word == IF is_minus THEN SubSeq(text, 2, Len(text)) ELSE text
         IN IF word = <<>> \/ word[1] = "-" \/ ~IsValidWord(word)
            THEN [error |-> TRUE, data |-> word, is_minus |-> is_minus,
                  is_stop |-> FALSE]
            ELSE [error |-> FALSE, data |-> word, is_minus |-> is_minus,
                  is_stop |-> IsStopWord(text)]

ParseQueryWord(text) ==
    IF text = <<>>
    THEN [error |-> TRUE, data |-> <<>>, is_minus |-> FALSE, is_stop |-> FALSE]
    ELSE LET is_minus == (text[1] = "-")
             word == IF is_minus THEN SubSeq(text, 2, Len(text)) ELSE text
         IN IF word = <<>> \/ word[1] = "-" \/ ~IsValidWord(word)
            THEN [error |-> TRUE, data |-> word, is_minus |-> is_minus,
                  is_stop |-> FALSE]
            ELSE [error |-> FALSE, data |-> word, is_minus |-> is_minus,
                  is_stop |-> IsStopWord(word)]

RECURSIVE ParseQueryWords(_, _, _)
ParseQueryWords(all, i, result) ==
    IF i > Len(all) THEN result
    ELSE LET query_word == ParseQueryWord(all[i]) IN
         IF query_word.error
         THEN [result EXCEPT !.error = TRUE]
         ELSE IF query_word.is_stop
         THEN ParseQueryWords(all, i + 1, result)
         ELSE IF query_word.is_minus
         THEN ParseQueryWords(all, i + 1,
                 [result EXCEPT !.minus_words = @ \cup {query_word.data}])
         ELSE ParseQueryWords(all, i + 1,
                 [result EXCEPT !.plus_words = @ \cup {query_word.data}])

ParseQuery(text) ==
    ParseQueryWords(SplitIntoWords(text), 1,
                    [error |-> FALSE, plus_words |-> {}, minus_words |-> {}])

----------------------------------------------------------------------------
(* Relevance                                                               *)

\* The fixed-point value of 1.0 of a logarithm.
LnScale == 1000000

\* LnTable[n] = ln(n) * LnScale, rounded.
LnTable == <<0, 693147, 1098612, 1386294, 1609438, 1791759, 1945910, 2079442>>

\* log(GetDocumentCount() * 1.0 / bucket.size()); with an empty bucket the
\* quotient is +inf and so is its logarithm.
ComputeWordInverseDocumentFreq(word) ==
    LET size == Cardinality(DOMAIN word_to_document_freqs[word]) IN
    IF size = 0 THEN "inf"
    ELSE LnTable[GetDocumentCount] - LnTable[size]

document_predicate(pred, document_id, status, rating) ==
    CASE pred = "even_id" -> document_id % 2 = 0
      [] OTHER            -> status = pred

\* 1e-6 in the unit of a relevance, 1 / (TFScale * LnScale).
EPSILON == (TFScale * LnScale) \div 1000000

MAX_RESULT_DOCUMENT_COUNT == 5

Document(id, relevance, rating) ==
    [id |-> id, relevance |-> relevance, rating |-> rating]

----------------------------------------------------------------------------
(* FindAllDocuments, sequential                                            *)

\* The (word, id) pairs the two nested loops over the given words visit.
WordDocPairs(words) ==
    { <<word, document_id>> \in words \X DOMAIN documents :
        /\ word \in DOMAIN word_to_document_freqs
        /\ document_id \in DOMAIN word_to_document_freqs[word] }

\* The pairs the for_each over query.plus_words visits.
PlusPairs(query) == WordDocPairs(query.plus_words)

\* MinusPairs with the for_each over the minus words left out.
MinusPairsSkipped(query) == {}

\* The pairs the for_each over query.minus_words visits.
MinusPairs(query) == WordDocPairs(query.minus_words)

\* AddToValue that makes no entry for a contribution of 0.
AddToValueSkippingZero(acc, document_id, delta) ==
    IF delta = 0 THEN acc
    ELSE MapPut(acc, document_id, MapAtOr(acc, document_id, 0) + delta)

\* document_to_relevance[id].ref_to_value += term_freq * inverse_document_freq
AddToValue(acc, document_id, delta) ==
    MapPut(acc, document_id, MapAtOr(acc, document_id, 0) + delta)

PlusDelta(pair) ==
    word_to_document_freqs[pair[1]][pair[2]]
        * ComputeWordInverseDocumentFreq(pair[1])

PassesPredicate(pred, document_id) ==
    document_predicate(pred, document_id,
                       documents[document_id].status,
                       documents[document_id].rating)

RECURSIVE AccumulatePlus(_, _, _)
AccumulatePlus(acc, pairs, pred) ==
    IF pairs = {} THEN acc
    ELSE LET pair == CHOOSE p \in pairs : TRUE IN
         AccumulatePlus(
            IF PassesPredicate(pred, pair[2])
            THEN AddToValue(acc, pair[2], PlusDelta(pair))
            ELSE acc,
            pairs \ {pair}, pred)

RECURSIVE EraseMinus(_, _)
EraseMinus(acc, pairs) ==
    IF pairs = {} THEN acc
    ELSE LET pair == CHOOSE p \in pairs : TRUE IN
         EraseMinus(MapErase(acc, pair[2]), pairs \ {pair})

\* The i-th smallest key of a map, i from 1: the order std::map iterates in.
RECURSIVE KeysInOrder(_)
KeysInOrder(keys) ==
    IF keys = {} THEN <<>>
    ELSE LET least == CHOOSE k \in keys : \A other \in keys : k <= other
         IN <<least>> \o KeysInOrder(keys \ {least})

\* The sequential loop over the ordinary map fills the slots in key order.
MaterializeInOrder(result) ==
    LET keys == KeysInOrder(DOMAIN result) IN
    [i \in 1..Len(keys) |->
        Document(keys[i], result[keys[i]], documents[keys[i]].rating)]

FindAllDocuments(query, pred) ==
    LET accumulated == AccumulatePlus(EmptyMap, PlusPairs(query), pred)
        result == EraseMinus(accumulated, MinusPairs(query))
    IN MaterializeInOrder(result)

----------------------------------------------------------------------------
(* FindTopDocuments: the sort and the truncation                           *)

Abs(x) == IF x < 0 THEN -x ELSE x

\* The comparator handed to std::sort: lhs is ordered before rhs.
Before(lhs, rhs) ==
    \/ /\ Abs(lhs.relevance - rhs.relevance) < EPSILON
       /\ lhs.rating > rhs.rating
    \/ lhs.relevance > rhs.relevance

Elements(v) == { v[i] : i \in 1..Len(v) }

\* What std::sort requires of its comparator on the elements it is given.
IsStrictWeakOrderingOn(S) ==
    /\ \A a \in S : ~Before(a, a)
    /\ \A a, b, c \in S : Before(a, b) /\ Before(b, c) => Before(a, c)
    /\ \A a, b, c \in S :
          (~Before(a, b) /\ ~Before(b, a) /\ ~Before(b, c) /\ ~Before(c, b))
              => (~Before(a, c) /\ ~Before(c, a))

IsSortedBy(v) ==
    \A i, j \in 1..Len(v) : i < j => ~Before(v[j], v[i])

Rearrangements(v) ==
    { [i \in 1..Len(v) |-> v[f[i]]] : f \in Permutations(1..Len(v)) }

\* What std::sort may leave in the range: a sorted rearrangement when the
\* comparator is a strict weak ordering on the elements, and otherwise (the
\* behaviour is undefined) any rearrangement.
SortOutcomes(v) ==
    IF IsStrictWeakOrderingOn(Elements(v))
    THEN { p \in Rearrangements(v) : IsSortedBy(p) }
    ELSE Rearrangements(v)

\* matched_documents.resize(MAX_RESULT_DOCUMENT_COUNT) when there are more.
Truncate(v) ==
    IF Len(v) > MAX_RESULT_DOCUMENT_COUNT
    THEN SubSeq(v, 1, MAX_RESULT_DOCUMENT_COUNT)
    ELSE v

FindTopDocuments(raw_query, pred) ==
    LET call == [NoCall EXCEPT !.op = "FindTopDocuments", !.query = raw_query,
                               !.pred = pred]
    IN \E query \in { ParseQuery(raw_query) } :
       /\ phase = "idle"
       /\ IF query.error
          THEN /\ last' = [call EXCEPT !.outcome = "invalid_argument",
                                       !.what = "Query word is invalid"]
               /\ UNCHANGED word_to_document_freqs
          ELSE /\ \E sorted \in SortOutcomes(FindAllDocuments(query, pred)) :
                     last' = [call EXCEPT !.docs = Truncate(sorted)]
               \* The lambdas reach the index through count(word) and at(word).
               /\ word_to_document_freqs' =
                     LookUp(word_to_document_freqs,
                            query.plus_words \cup query.minus_words)
       /\ UNCHANGED <<stop_words, documents, document_ids, callVars>>

----------------------------------------------------------------------------
(* MatchDocument, sequential                                               *)

\* The set order of std::set<std::string_view>: lexicographic by code point.
WordLess(x, y) ==
    \E i \in 1..(Len(x) + 1) :
        /\ \A j \in 1..(i - 1) : j <= Len(y) /\ x[j] = y[j]
        /\ \/ i = Len(x) + 1 /\ Len(y) >= i
           \/ i <= Len(x) /\ i <= Len(y) /\ CharCode(x[i]) < CharCode(y[i])

RECURSIVE WordsInOrder(_)
WordsInOrder(words) ==
    IF words = {} THEN <<>>
    ELSE LET least == CHOOSE w \in words : \A other \in words \ {w} : WordLess(w, other)
         IN <<least>> \o WordsInOrder(words \ {least})

\* One pass of a for_each lambda of MatchDocument over the words, in order:
\* the matched words, or "out_of_range" when map::at finds no such word.
RECURSIVE MatchPlusWords(_, _, _, _)
MatchPlusWords(words, i, document_id, matched) ==
    IF i > Len(words) THEN [thrown |-> FALSE, matched |-> matched]
    ELSE IF words[i] \notin DOMAIN word_to_document_freqs
    THEN [thrown |-> TRUE, matched |-> matched]
    ELSE IF document_id \in DOMAIN word_to_document_freqs[words[i]]
    THEN MatchPlusWords(words, i + 1, document_id, Append(matched, words[i]))
    ELSE MatchPlusWords(words, i + 1, document_id, matched)

\* MatchMinusWords without the clear().
RECURSIVE MatchMinusWordsKeeping(_, _, _, _)
MatchMinusWordsKeeping(words, i, document_id, matched) ==
    IF i > Len(words) THEN [thrown |-> FALSE, matched |-> matched]
    ELSE IF words[i] \notin DOMAIN word_to_document_freqs
    THEN [thrown |-> TRUE, matched |-> matched]
    ELSE MatchMinusWordsKeeping(words, i + 1, document_id, matched)

RECURSIVE MatchMinusWords(_, _, _, _)
MatchMinusWords(words, i, document_id, matched) ==
    IF i > Len(words) THEN [thrown |-> FALSE, matched |-> matched]
    ELSE IF words[i] \notin DOMAIN word_to_document_freqs
    THEN [thrown |-> TRUE, matched |-> matched]
    ELSE IF document_id \in DOMAIN word_to_document_freqs[words[i]]
    THEN MatchMinusWords(words, i + 1, document_id, <<>>)
    ELSE MatchMinusWords(words, i + 1, document_id, matched)

MatchDocument(raw_query, document_id) ==
    LET call == [NoCall EXCEPT !.op = "MatchDocument", !.query = raw_query,
                               !.id = document_id]
    IN \E query \in { ParseQuery(raw_query) } :
       /\ phase = "idle"
       /\ IF query.error
          THEN /\ last' = [call EXCEPT !.outcome = "invalid_argument",
                                       !.what = "Query word is invalid"]
               /\ UNCHANGED word_to_document_freqs
          ELSE IF document_id \notin document_ids
          THEN /\ last' = [call EXCEPT !.outcome = "out_of_range",
                                       !.what = "This document id doesn't exist"]
               /\ UNCHANGED word_to_document_freqs
          ELSE LET plus == MatchPlusWords(WordsInOrder(query.plus_words), 1,
                                          document_id, <<>>)
                   minus == MatchMinusWords(WordsInOrder(query.minus_words), 1,
                                            document_id, plus.matched)
               IN /\ IF plus.thrown \/ minus.thrown
                     THEN last' = [call EXCEPT !.found = TRUE,
                                               !.outcome = "out_of_range",
                                               !.what = "map::at"]
                     ELSE last' = [call EXCEPT !.found = TRUE,
                                               !.words = minus.matched,
                                               !.status = documents[document_id].status]
                  \* The lambdas reach the index through at(word).
                  /\ word_to_document_freqs' =
                        LookUp(word_to_document_freqs,
                               query.plus_words \cup query.minus_words)
       /\ UNCHANGED <<stop_words, documents, document_ids, callVars>>

----------------------------------------------------------------------------
(* ConcurrentMap<int, double>                                              *)

\* The number of buckets of the map.
BucketCount == 2

Buckets == 0..(BucketCount - 1)

\* The bucket of a key.
BucketOf(key) == key % BucketCount

\* BuildOrdinaryMap(): the buckets merged into one map.
BuildOrdinaryMap(buckets) ==
    [key \in UNION { DOMAIN buckets[b] : b \in DOMAIN buckets } |->
        buckets[BucketOf(key)][key]]

\* Document(): the value the slots of the result vector start with.
DefaultDocument == Document(0, 0, 0)

----------------------------------------------------------------------------
(* FindTopDocuments under the parallel policy: one step of one task of a   *)
(* for_each at a time.  A for_each returns when all its tasks are done.    *)

\* A for_each that returns as soon as one of its tasks is done.
AnyDone == \E t \in DOMAIN tasks : tasks[t].pc = "done"

AllDone == \A t \in DOMAIN tasks : tasks[t].pc = "done"

NewTasks(S) == [t \in S |-> [pc |-> "start", read |-> 0]]

Running(op, raw_query) ==
    [NoCall EXCEPT !.op = op, !.policy = "par", !.query = raw_query,
                   !.outcome = "running"]

ParFindTopDocuments(raw_query, pred) ==
    LET query == ParseQuery(raw_query) IN
    /\ phase = "idle"
    /\ IF query.error
       THEN /\ last' = [NoCall EXCEPT !.op = "FindTopDocuments", !.policy = "par",
                                      !.query = raw_query, !.pred = pred,
                                      !.outcome = "invalid_argument",
                                      !.what = "Query word is invalid"]
            /\ UNCHANGED callVars
       ELSE /\ run' = [NoRun EXCEPT !.op = "FindTopDocuments",
                                    !.raw_query = raw_query, !.pred = pred,
                                    !.plus_words = query.plus_words,
                                    !.minus_words = query.minus_words]
            /\ phase' = "plus"
            /\ tasks' = NewTasks(PlusPairs(query))
            /\ document_to_relevance' = [b \in Buckets |-> EmptyMap]
            /\ locks' = [b \in Buckets |-> "free"]
            /\ last' = [Running("FindTopDocuments", raw_query) EXCEPT !.pred = pred]
            /\ UNCHANGED <<matched_documents, index, matched_words>>
    /\ UNCHANGED serverVars

\* A task of the first for_each: the predicate, then operator[] takes the
\* bucket's mutex and finds or inserts the value.
PlusTaskBegin(t) ==
    /\ phase = "plus"
    /\ tasks[t].pc = "start"
    /\ IF PassesPredicate(run.pred, t[2])
       THEN LET b == BucketOf(t[2]) IN
            /\ locks[b] = "free"
            /\ locks' = [locks EXCEPT ![b] = t]
            /\ document_to_relevance' =
                  [document_to_relevance EXCEPT
                      ![b] = MapPut(@, t[2], MapAtOr(@, t[2], 0))]
            /\ tasks' = [tasks EXCEPT
                  ![t] = [pc |-> "holding",
                          read |-> MapAtOr(document_to_relevance[b], t[2], 0)]]
       ELSE /\ tasks' = [tasks EXCEPT ![t].pc = "done"]
            /\ UNCHANGED <<document_to_relevance, locks>>
    /\ UNCHANGED <<serverVars, last, run, phase, matched_documents, index,
                   matched_words>>

\* ref_to_value += term_freq * inverse_document_freq, and the Access object
\* releases the mutex.
PlusTaskAdd(t) ==
    LET b == BucketOf(t[2]) IN
    /\ phase = "plus"
    /\ tasks[t].pc = "holding"
    /\ document_to_relevance' =
          [document_to_relevance EXCEPT ![b][t[2]] = tasks[t].read + PlusDelta(t)]
    /\ locks' = [locks EXCEPT ![b] = "free"]
    /\ tasks' = [tasks EXCEPT ![t].pc = "done"]
    /\ UNCHANGED <<serverVars, last, run, phase, matched_documents, index,
                   matched_words>>

\* The first for_each has returned: the second one starts.
JoinPlus ==
    /\ phase = "plus"
    /\ AllDone
    /\ phase' = "minus"
    /\ tasks' = NewTasks(MinusPairs(run))
    /\ UNCHANGED <<serverVars, last, run, document_to_relevance, locks,
                   matched_documents, index, matched_words>>

\* A task of the second for_each: Erase(id) takes the bucket's mutex ...
MinusTaskBegin(t) ==
    LET b == BucketOf(t[2]) IN
    /\ phase = "minus"
    /\ tasks[t].pc = "start"
    /\ locks[b] = "free"
    /\ locks' = [locks EXCEPT ![b] = t]
    /\ tasks' = [tasks EXCEPT ![t].pc = "holding"]
    /\ UNCHANGED <<serverVars, last, run, phase, document_to_relevance,
                   matched_documents, index, matched_words>>

\* ... erases the key and releases the mutex.
MinusTaskErase(t) ==
    LET b == BucketOf(t[2]) IN
    /\ phase = "minus"
    /\ tasks[t].pc = "holding"
    /\ document_to_relevance' =
          [document_to_relevance EXCEPT ![b] = MapErase(@, t[2])]
    /\ locks' = [locks EXCEPT ![b] = "free"]
    /\ tasks' = [tasks EXCEPT ![t].pc = "done"]
    /\ UNCHANGED <<serverVars, last, run, phase, matched_documents, index,
                   matched_words>>

\* The second for_each has returned: the ordinary map is built, the result
\* vector gets its size, and the third for_each starts.
JoinMinus ==
    LET result == BuildOrdinaryMap(document_to_relevance) IN
    /\ phase = "minus"
    /\ AllDone
    /\ phase' = "materialize"
    /\ matched_documents' =
          [i \in 1..Cardinality(DOMAIN result) |-> DefaultDocument]
    /\ index' = 0
    /\ tasks' = NewTasks(DOMAIN result)
    /\ UNCHANGED <<serverVars, last, run, document_to_relevance, locks,
                   matched_words>>

\* index++ without the increment.
IndexPostIncrementStuck(i) == [slot |-> i, index |-> i]

\* index++ on std::atomic_int: the old value, and the value left in index.
IndexPostIncrement(i) == [slot |-> i, index |-> i + 1]

\* A task of the third for_each: index++ ...
MaterializeTakeSlot(id) ==
    LET taken == IndexPostIncrement(index) IN
    /\ phase = "materialize"
    /\ tasks[id].pc = "start"
    /\ index' = taken.index
    /\ tasks' = [tasks EXCEPT ![id] = [pc |-> "slot", read |-> taken.slot]]
    /\ UNCHANGED <<serverVars, last, run, phase, document_to_relevance, locks,
                   matched_documents, matched_words>>

\* ... and the assignment to the slot.
MaterializeWrite(id) ==
    LET result == BuildOrdinaryMap(document_to_relevance) IN
    /\ phase = "materialize"
    /\ tasks[id].pc = "slot"
    /\ matched_documents' =
          [matched_documents EXCEPT
              ![tasks[id].read + 1] = Document(id, result[id], documents[id].rating)]
    /\ tasks' = [tasks EXCEPT ![id].pc = "done"]
    /\ UNCHANGED <<serverVars, last, run, phase, document_to_relevance, locks,
                   index, matched_words>>

\* The third for_each has returned: FindAllDocuments returns matched_documents.
JoinMaterialize ==
    /\ phase = "materialize"
    /\ AllDone
    /\ phase' = "sort"
    /\ tasks' = <<>>
    /\ UNCHANGED <<serverVars, last, run, document_to_relevance, locks,
                   matched_documents, index, matched_words>>

\* std::sort(policy, ...), the resize, and the return of FindTopDocuments.
SortAndReturn ==
    /\ phase = "sort"
    /\ \E sorted \in SortOutcomes(matched_documents) :
          last' = [last EXCEPT !.outcome = "ok", !.docs = Truncate(sorted)]
    /\ run' = NoRun
    /\ phase' = "idle"
    /\ tasks' = <<>>
    /\ document_to_relevance' = <<>>
    /\ locks' = <<>>
    /\ matched_documents' = <<>>
    /\ index' = 0
    /\ UNCHANGED <<serverVars, matched_words>>

FindTask ==
    \E t \in DOMAIN tasks :
        \/ PlusTaskBegin(t)
        \/ PlusTaskAdd(t)
        \/ MinusTaskBegin(t)
        \/ MinusTaskErase(t)
        \/ MaterializeTakeSlot(t)
        \/ MaterializeWrite(t)

FindJoin ==
    \/ JoinPlus
    \/ JoinMinus
    \/ JoinMaterialize
    \/ SortAndReturn

----------------------------------------------------------------------------
(* MatchDocument under the parallel policy.  matched_words is the vector   *)
(* the lambdas share without a lock: [size, data], data keeping what was   *)
(* written beyond size.                                                    *)

NoWords == [size |-> 0, data |-> <<>>]

WordsOf(vector) == SubSeq(vector.data, 1, vector.size)

\* An exception leaves a task of a parallel algorithm: std::terminate.
Terminate ==
    /\ last' = [last EXCEPT !.outcome = "terminate", !.what = "map::at"]
    /\ run' = NoRun
    /\ phase' = "idle"
    /\ tasks' = <<>>
    /\ matched_words' = <<>>
    /\ UNCHANGED <<serverVars, document_to_relevance, locks, matched_documents,
                   index>>

ParMatchDocument(raw_query, document_id) ==
    LET query == ParseQuery(raw_query)
        call  == [NoCall EXCEPT !.op = "MatchDocument", !.policy = "par",
                                !.query = raw_query, !.id = document_id]
    IN
    /\ phase = "idle"
    /\ IF query.error
       THEN /\ last' = [call EXCEPT !.outcome = "invalid_argument",
                                    !.what = "Query word is invalid"]
            /\ UNCHANGED callVars
       ELSE IF document_id \notin document_ids
       THEN /\ last' = [call EXCEPT !.outcome = "out_of_range",
                                    !.what = "This document id doesn't exist"]
            /\ UNCHANGED callVars
       ELSE /\ run' = [NoRun EXCEPT !.op = "MatchDocument", !.id = document_id,
                                    !.raw_query = raw_query,
                                    !.plus_words = query.plus_words,
                                    !.minus_words = query.minus_words]
            /\ phase' = "match_plus"
            /\ tasks' = NewTasks(query.plus_words)
            /\ matched_words' = NoWords
            /\ last' = [call EXCEPT !.found = TRUE, !.outcome = "running"]
            /\ UNCHANGED <<document_to_relevance, locks, matched_documents, index>>
    /\ UNCHANGED serverVars

\* A task of the first for_each: at(word).count(document_id), and push_back
\* reads where the vector ends ...
MatchPlusBegin(word) ==
    /\ phase = "match_plus"
    /\ tasks[word].pc = "start"
    /\ IF word \notin DOMAIN word_to_document_freqs
       THEN Terminate
       ELSE /\ tasks' = [tasks EXCEPT ![word] =
                  IF run.id \in DOMAIN word_to_document_freqs[word]
                  THEN [pc |-> "push", read |-> matched_words.size]
                  ELSE [pc |-> "done", read |-> 0]]
            /\ UNCHANGED <<serverVars, last, run, phase, document_to_relevance,
                           locks, matched_documents, index, matched_words>>

\* ... and writes the word there and moves the end past it.
MatchPlusPush(word) ==
    LET end == tasks[word].read + 1 IN
    /\ phase = "match_plus"
    /\ tasks[word].pc = "push"
    /\ matched_words' =
          [size |-> end,
           data |-> [i \in 1..(IF end > Len(matched_words.data)
                               THEN end ELSE Len(matched_words.data)) |->
                        IF i = end THEN word ELSE matched_words.data[i]]]
    /\ tasks' = [tasks EXCEPT ![word].pc = "done"]
    /\ UNCHANGED <<serverVars, last, run, phase, document_to_relevance, locks,
                   matched_documents, index>>

JoinMatchPlus ==
    /\ phase = "match_plus"
    /\ AllDone
    /\ phase' = "match_minus"
    /\ tasks' = NewTasks(run.minus_words)
    /\ UNCHANGED <<serverVars, last, run, document_to_relevance, locks,
                   matched_documents, index, matched_words>>

\* A task of the second for_each: at(word).count(document_id), and clear().
MatchMinusTask(word) ==
    /\ phase = "match_minus"
    /\ tasks[word].pc = "start"
    /\ IF word \notin DOMAIN word_to_document_freqs
       THEN Terminate
       ELSE /\ tasks' = [tasks EXCEPT ![word].pc = "done"]
            /\ matched_words' =
                  IF run.id \in DOMAIN word_to_document_freqs[word]
                  THEN [matched_words EXCEPT !.size = 0]
                  ELSE matched_words
            /\ UNCHANGED <<serverVars, last, run, phase, document_to_relevance,
                           locks, matched_documents, index>>

\* The second for_each has returned: MatchDocument returns.
JoinMatchMinus ==
    /\ phase = "match_minus"
    /\ AllDone
    /\ last' = [last EXCEPT !.outcome = "ok",
                            !.words = WordsOf(matched_words),
                            !.status = documents[run.id].status]
    /\ run' = NoRun
    /\ phase' = "idle"
    /\ tasks' = <<>>
    /\ matched_words' = <<>>
    /\ UNCHANGED <<serverVars, document_to_relevance, locks, matched_documents,
                   index>>

MatchTask ==
    \E word \in DOMAIN tasks :
        \/ MatchPlusBegin(word)
        \/ MatchPlusPush(word)
        \/ MatchMinusTask(word)

MatchJoin ==
    \/ JoinMatchPlus
    \/ JoinMatchMinus

----------------------------------------------------------------------------
(* RemoveDocument under the parallel policy: one task for each word of the *)
(* document's word frequencies.                                            *)

ParRemoveDocument(document_id) ==
    LET call == [NoCall EXCEPT !.op = "RemoveDocument", !.policy = "par",
                               !.id = document_id]
    IN
    /\ phase = "idle"
    /\ IF document_id \notin DOMAIN documents
       THEN /\ last' = call
            /\ UNCHANGED callVars
       ELSE /\ run' = [NoRun EXCEPT !.op = "RemoveDocument", !.id = document_id]
            /\ phase' = "remove"
            /\ tasks' = NewTasks(DOMAIN documents[document_id].word_to_freqs)
            /\ last' = [call EXCEPT !.found = TRUE, !.outcome = "running"]
            /\ UNCHANGED <<document_to_relevance, locks, matched_documents,
                           index, matched_words>>
    /\ UNCHANGED serverVars

\* A task: word_to_document_freqs_[word.first] finds the bucket of the word,
\* or inserts an empty one when the word is no key; the task has a reference
\* to that bucket (read is its key) ...
RemoveTaskSubscript(word) ==
    /\ phase = "remove"
    /\ tasks[word].pc = "start"
    /\ word_to_document_freqs' =
          MapPut(word_to_document_freqs, word,
                 MapAtOr(word_to_document_freqs, word, EmptyMap))
    /\ tasks' = [tasks EXCEPT ![word] = [pc |-> "bucket", read |-> word]]
    /\ UNCHANGED <<stop_words, documents, document_ids, last, run, phase,
                   document_to_relevance, locks, matched_documents, index,
                   matched_words>>

\* BucketErase that empties the bucket.
BucketEraseAll(freqs, word, document_id) == [freqs EXCEPT ![word] = EmptyMap]

\* .erase(document_id) on the bucket of the word.
BucketErase(freqs, word, document_id) ==
    [freqs EXCEPT ![word] = MapErase(@, document_id)]

\* ... and erases the id from the bucket.
RemoveTaskErase(word) ==
    /\ phase = "remove"
    /\ tasks[word].pc = "bucket"
    /\ word_to_document_freqs' =
          BucketErase(word_to_document_freqs, tasks[word].read, run.id)
    /\ tasks' = [tasks EXCEPT ![word].pc = "done"]
    /\ UNCHANGED <<stop_words, documents, document_ids, last, run, phase,
                   document_to_relevance, locks, matched_documents, index,
                   matched_words>>

\* The for_each has returned: the document and its id are erased.
JoinRemove ==
    /\ phase = "remove"
    /\ AllDone
    /\ documents' = MapErase(documents, run.id)
    /\ document_ids' = document_ids \ {run.id}
    /\ last' = [last EXCEPT !.outcome = "ok"]
    /\ run' = NoRun
    /\ phase' = "idle"
    /\ tasks' = <<>>
    /\ UNCHANGED <<stop_words, word_to_document_freqs, document_to_relevance,
                   locks, matched_documents, index, matched_words>>

RemoveTask ==
    \E word \in DOMAIN tasks :
        \/ RemoveTaskSubscript(word)
        \/ RemoveTaskErase(word)

----------------------------------------------------------------------------
(* The interface, called by a single thread                                *)

DoAddDocument ==
    \E document_id \in InputIds, document \in DocTexts,
       status \in Statuses, ratings \in RatingInputs :
        AddDocument(document_id, document, status, ratings)

DoRemoveDocument ==
    \E document_id \in InputIds : RemoveDocument(document_id)

DoFindTopDocuments ==
    \E raw_query \in QueryTexts, pred \in Predicates :
        FindTopDocuments(raw_query, pred)

DoMatchDocument ==
    \E raw_query \in QueryTexts, document_id \in InputIds :
        MatchDocument(raw_query, document_id)

DoGetWordFrequencies ==
    \E document_id \in InputIds : GetWordFrequenciesCall(document_id)

Next ==
    \/ DoAddDocument
    \/ DoRemoveDocument
    \/ DoFindTopDocuments
    \/ DoMatchDocument

Spec == Init /\ [][Next]_vars

----------------------------------------------------------------------------
(* Calls under either policy, on a server that documents were added to     *)

\* The texts of the documents added before the calls: "s a", "a b", "b b a".
ParDocTexts ==
    { <<"s", " ", "a">>, <<"a", " ", "b">>, <<"b", " ", "b", " ", "a">> }

NewServer ==
    [documents |-> <<>>, word_to_document_freqs |-> <<>>, document_ids |-> {},
     outcome |-> "ok", what |-> ""]

\* The servers after AddDocument for some of the ids 0 .. document_id, in
\* the order of the ids.
RECURSIVE ServersUpTo(_)
ServersUpTo(document_id) ==
    IF document_id < 0 THEN { NewServer }
    ELSE LET before == ServersUpTo(document_id - 1) IN
         before \cup
         { AddDocumentTo(server, document_id, document, status, ratings) :
              server \in before, document \in ParDocTexts,
              status \in Statuses, ratings \in RatingInputs }

InitPar ==
    /\ \E stop_words_text \in StopWordTexts :
          stop_words = MakeUniqueNonEmptyStrings(SplitIntoWords(stop_words_text))
    /\ \E server \in ServersUpTo(MaxDocId) :
          /\ documents = server.documents
          /\ word_to_document_freqs = server.word_to_document_freqs
          /\ document_ids = server.document_ids
    /\ last = NoCall
    /\ CallIdle

DoParFindTopDocuments ==
    \E raw_query \in QueryTexts, pred \in Predicates :
        ParFindTopDocuments(raw_query, pred)

DoParMatchDocument ==
    \E raw_query \in QueryTexts, document_id \in InputIds :
        ParMatchDocument(raw_query, document_id)

NextPar ==
    \/ DoFindTopDocuments
    \/ DoMatchDocument
    \/ DoParFindTopDocuments
    \/ FindTask
    \/ FindJoin
    \/ DoParMatchDocument
    \/ MatchTask
    \/ MatchJoin
    \/ DoGetWordFrequencies
    \/ GetDocumentCountCall

SpecPar == InitPar /\ [][NextPar]_vars

----------------------------------------------------------------------------
(* RemoveDocument under either policy, on a server that documents were     *)
(* added to                                                                *)

DoParRemoveDocument ==
    \E document_id \in InputIds : ParRemoveDocument(document_id)

NextRemove ==
    \/ DoRemoveDocument
    \/ DoParRemoveDocument
    \/ RemoveTask
    \/ JoinRemove

SpecRemove == InitPar /\ [][NextRemove]_vars

----------------------------------------------------------------------------
(* One query, of any text up to a length, on a server with a document      *)

\* The longest raw query.
MaxQueryLen == 4

\* The characters of a raw query: a word, the stop word, the minus sign, the
\* space and a control character.
QueryChars == { "a", "s", "-", " ", "\t" }

ParseTexts == UNION { [1..n -> QueryChars] : n \in 0..MaxQueryLen }

InitParse ==
    /\ \E stop_words_text \in StopWordTexts :
          stop_words = MakeUniqueNonEmptyStrings(SplitIntoWords(stop_words_text))
    /\ \E server \in ServersUpTo(0) :
          /\ documents = server.documents
          /\ word_to_document_freqs = server.word_to_document_freqs
          /\ document_ids = server.document_ids
    /\ last = NoCall
    /\ CallIdle

DoParseFindTopDocuments ==
    /\ last = NoCall
    /\ \E raw_query \in ParseTexts, pred \in Predicates :
          FindTopDocuments(raw_query, pred)

DoParseMatchDocument ==
    /\ last = NoCall
    /\ \E raw_query \in ParseTexts, document_id \in InputIds :
          MatchDocument(raw_query, document_id)

NextParse ==
    \/ DoParseFindTopDocuments
    \/ DoParseMatchDocument

SpecParse == InitParse /\ [][NextParse]_vars

----------------------------------------------------------------------------
(* The sort and the truncation of FindTopDocuments, on the vectors         *)
(* FindAllDocuments may return                                             *)

\* One document more than FindTopDocuments returns.
MaxMatched == MAX_RESULT_DOCUMENT_COUNT + 1

\* Relevances 0, 0.5e-6 and 1e-6 apart, and two ratings.
RankRelevances == { 0, EPSILON \div 2, EPSILON }

RankRatings == { 0, 1 }

RankLeq(p, q) == p[1] < q[1] \/ (p[1] = q[1] /\ p[2] <= q[2])

\* The vectors of up to MaxMatched documents.  What std::sort may leave
\* depends on the relevances and ratings alone, so document i - 1 has the
\* i-th of them in a listing in ascending order.
RankInputs ==
    UNION { { [i \in 1..n |-> Document(i - 1, f[i][1], f[i][2])] :
                f \in { g \in [1..n -> RankRelevances \X RankRatings] :
                          \A i \in 1..(n - 1) : RankLeq(g[i], g[i + 1]) } } :
            n \in 0..MaxMatched }

InitRank ==
    /\ \E stop_words_text \in StopWordTexts : Constructed(stop_words_text)
    /\ last = Running("FindTopDocuments", <<>>)
    /\ run = [NoRun EXCEPT !.op = "FindTopDocuments"]
    /\ phase = "sort"
    /\ tasks = <<>>
    /\ document_to_relevance = <<>>
    /\ locks = <<>>
    /\ matched_documents \in RankInputs
    /\ index = 0
    /\ matched_words = <<>>

NextRank == SortAndReturn

SpecRank == InitRank /\ [][NextRank]_vars

----------------------------------------------------------------------------
(* Properties of the index under AddDocument and RemoveDocument            *)

\* C1: a call of AddDocument that fails with InvalidInput leaves the document
\* store, the inverted index, the id registry and GetDocumentCount() as
\* they were before the call.
C1_FailedAddChangesNothing ==
    [][ (last'.op = "AddDocument" /\ last'.outcome = "invalid_argument")
            => /\ documents' = documents
               /\ word_to_document_freqs' = word_to_document_freqs
               /\ document_ids' = document_ids
               /\ GetDocumentCount' = GetDocumentCount ]_vars

\* C2: the id registry holds exactly the ids of the document store, and
\* GetDocumentCount() is the number of ids in the registry.
C2_RegistryIsStore ==
    /\ Ids = DOMAIN documents
    /\ GetDocumentCount = Cardinality(Ids)

\* Every word that is a key of the index or of a document's frequencies.
KnownWords ==
    (DOMAIN word_to_document_freqs)
        \cup UNION { DOMAIN documents[d].word_to_freqs : d \in DOMAIN documents }

HasEntry(word, document_id) ==
    /\ word \in DOMAIN word_to_document_freqs
    /\ document_id \in DOMAIN word_to_document_freqs[word]

\* C3: the inverted index has an entry (w, d) exactly when d is stored and w
\* is a key of d's word frequencies, and then both hold the same frequency;
\* no entry refers to a document that is not stored.
C3_IndexMatchesStore ==
    /\ \A word \in KnownWords, document_id \in DocIds :
          /\ HasEntry(word, document_id)
                <=> /\ document_id \in DOMAIN documents
                    /\ word \in DOMAIN documents[document_id].word_to_freqs
          /\ HasEntry(word, document_id)
                => word_to_document_freqs[word][document_id]
                      = documents[document_id].word_to_freqs[word]
    /\ \A word \in DOMAIN word_to_document_freqs :
          DOMAIN word_to_document_freqs[word] \subseteq DOMAIN documents

\* A document was removed while another one, which shares a word with it and
\* has a word twice in its text, stays indexed.
C3_Witness ==
    /\ last.op = "RemoveDocument" /\ last.found
    /\ \E word \in DOMAIN word_to_document_freqs :
          word_to_document_freqs[word] = <<>>
    /\ \E document_id \in DOMAIN documents :
          \E w1, w2 \in DOMAIN documents[document_id].word_to_freqs :
              /\ documents[document_id].word_to_freqs[w1]
                    > documents[document_id].word_to_freqs[w2]
              /\ HasEntry(w1, document_id)

\* C7: RemoveDocument(id) of a stored id: afterwards id is not in Ids(),
\* GetWordFrequencies(id) is empty, GetDocumentCount() is one less, and no
\* bucket of the inverted index has an entry for id.
C7_RemoveErasesDocument ==
    [][ \A document_id \in InputIds :
          (/\ last'.op = "RemoveDocument"
           /\ last'.id = document_id
           /\ document_id \in DOMAIN documents)
            => /\ document_id \notin Ids'
               /\ GetWordFrequencies(document_id)' = EmptyMap
               /\ GetDocumentCount' = GetDocumentCount - 1
               /\ \A word \in DOMAIN word_to_document_freqs' :
                      document_id \notin DOMAIN word_to_document_freqs'[word] ]_vars

\* A stored document with indexed words was removed while another stays.
C7_Witness ==
    /\ last.op = "RemoveDocument" /\ last.found
    /\ word_to_document_freqs # <<>>
    /\ documents # <<>>

\* C13: RemoveDocument never fails; for an id that is not stored it leaves
\* the store, the inverted index and the registry as they were; for a stored
\* id it leaves the stored data and word frequencies of every other document,
\* their entries in the inverted index and their ids in the registry as they
\* were, and makes no new entry.
C13_RemoveChangesOnlyTheDocument ==
    [][ last'.op = "RemoveDocument"
          => LET document_id == last'.id IN
             /\ last'.outcome = "ok"
             /\ document_id \notin DOMAIN documents
                   => /\ documents' = documents
                      /\ word_to_document_freqs' = word_to_document_freqs
                      /\ document_ids' = document_ids
             /\ document_id \in DOMAIN documents
                   => /\ \A other \in (DOMAIN documents) \ {document_id} :
                            /\ other \in DOMAIN documents'
                            /\ documents'[other] = documents[other]
                      /\ document_ids' \ {document_id}
                            = document_ids \ {document_id}
                      /\ DOMAIN word_to_document_freqs'
                            = DOMAIN word_to_document_freqs
                      /\ \A word \in DOMAIN word_to_document_freqs :
                            /\ (DOMAIN word_to_document_freqs'[word]) \ {document_id}
                                  = (DOMAIN word_to_document_freqs[word]) \ {document_id}
                            /\ \A other \in (DOMAIN word_to_document_freqs[word])
                                                \ {document_id} :
                                  word_to_document_freqs'[word][other]
                                     = word_to_document_freqs[word][other] ]_vars

\* A stored document was removed, it left a bucket empty, and a document
\* with entries in the inverted index stays.
C13_Witness ==
    /\ last.op = "RemoveDocument" /\ last.found /\ last.outcome = "ok"
    /\ \E word \in DOMAIN word_to_document_freqs :
          word_to_document_freqs[word] = <<>>
    /\ \E other \in DOMAIN documents, word \in DOMAIN word_to_document_freqs :
          other \in DOMAIN word_to_document_freqs[word]

\* The words the text of a stored document is split into: the slices of the
\* text that its words and the keys made from them are.
SlicesOf(document_id) == Elements(SplitIntoWords(documents[document_id].data))

\* C17: every word key of the inverted index is a slice of the text of a
\* document that is in the document store; RemoveDocument leaves no key
\* whose text is gone.
C17_KeysAreBackedByStoredText ==
    \A word \in DOMAIN word_to_document_freqs :
        \E document_id \in DOMAIN documents : word \in SlicesOf(document_id)

\* C18: every word key of the inverted index has a bucket of df documents
\* with 1 <= df <= GetDocumentCount(), all of them stored, so that N / df is
\* defined and at least 1 when a query computes the inverse document
\* frequency of the word.
C18_BucketsAreNotEmpty ==
    \A word \in DOMAIN word_to_document_freqs :
        LET bucket == DOMAIN word_to_document_freqs[word] IN
        /\ 1 <= Cardinality(bucket)
        /\ Cardinality(bucket) <= GetDocumentCount
        /\ bucket \subseteq DOMAIN documents

\* C20: every word that is a key of a stored document's word frequencies or
\* of the inverted index is non-empty, has no control character and is no
\* stop word.
C20_WordsAreWords ==
    \A word \in KnownWords :
        /\ word # <<>>
        /\ IsValidWord(word)
        /\ ~IsStopWord(word)

\* C16: while the tasks of a parallel RemoveDocument run, no step inserts or
\* erases a key of the outer word map, no two tasks hold the same bucket,
\* and each step does a part of what the sequential loop does; when the call
\* returns, the store, the inverted index and the registry are those the
\* sequential RemoveDocument produces.
C16_ParallelRemoveIsSequential ==
    [][ phase = "remove"
          => LET words == DOMAIN documents[run.id].word_to_freqs
                 sequential == EraseWords(word_to_document_freqs, words, run.id)
             IN /\ DOMAIN word_to_document_freqs' = DOMAIN word_to_document_freqs
                /\ EraseWords(word_to_document_freqs', words, run.id) = sequential
                /\ \A w1, w2 \in DOMAIN tasks' :
                      (tasks'[w1].pc = "bucket" /\ tasks'[w2].pc = "bucket"
                          /\ w1 # w2)
                         => tasks'[w1].read # tasks'[w2].read
                /\ phase' = "remove"
                      => documents' = documents /\ document_ids' = document_ids
                /\ phase' = "idle"
                      => /\ word_to_document_freqs' = sequential
                         /\ documents' = MapErase(documents, run.id)
                         /\ document_ids' = document_ids \ {run.id} ]_vars

\* Two tasks hold their buckets at the same time, and another document has an
\* entry in one of the buckets.
C16_Witness ==
    /\ phase = "remove"
    /\ \E w1, w2 \in DOMAIN tasks :
          /\ w1 # w2
          /\ tasks[w1].pc = "bucket" /\ tasks[w2].pc = "bucket"
          /\ \E other \in DOMAIN word_to_document_freqs[w1] : other # run.id

----------------------------------------------------------------------------
(* Properties of the calls that only read                                  *)

----------------------------------------------------------------------------
(* Properties of query parsing                                             *)

\* The positions that delimit the tokens of a text: its spaces and its ends.
Delimiters(text) ==
    {0, Len(text) + 1} \cup { i \in 1..Len(text) : text[i] = " " }

\* The space-delimited tokens of a text.
Tokens(text) ==
    { SubSeq(text, i + 1, j - 1) :
        <<i, j>> \in { p \in Delimiters(text) \X Delimiters(text) :
                         /\ p[1] < p[2]
                         /\ \A k \in Delimiters(text) : ~(p[1] < k /\ k < p[2]) } }

\* A token that makes the parse fail: empty, a bare minus sign, beginning
\* with two minus signs, or with a control character in it.
BadToken(token) ==
    \/ token = <<>>
    \/ token = <<"-">>
    \/ Len(token) >= 2 /\ token[1] = "-" /\ token[2] = "-"
    \/ \E i \in 1..Len(token) : CharCode(token[i]) < CharCode(" ")

Stripped(token) == IF token[1] = "-" THEN Tail(token) ELSE token

\* C14: parsing the query of FindTopDocuments or MatchDocument fails with
\* InvalidInput exactly when a space-delimited token is empty, a bare minus
\* sign, begins with two minus signs or has a control character; otherwise
\* the plus set holds the tokens without a minus sign and the minus set the
\* tokens with it, stripped, both without the words that are stop words once
\* stripped; a failing parse fails the call and changes no state.
C14_ParseQuery ==
    [][ last'.op \in {"FindTopDocuments", "MatchDocument"}
          => LET text   == last'.query
                 parsed == ParseQuery(text)
                 bad    == \E token \in Tokens(text) : BadToken(token)
             IN /\ parsed.error <=> bad
                /\ (last'.outcome = "invalid_argument") <=> bad
                /\ bad => /\ documents' = documents
                          /\ word_to_document_freqs' = word_to_document_freqs
                          /\ document_ids' = document_ids
                /\ ~bad =>
                      /\ parsed.plus_words =
                            { token \in Tokens(text) :
                                token[1] # "-" /\ token \notin stop_words }
                      /\ parsed.minus_words =
                            { Stripped(token) :
                                token \in { t \in Tokens(text) :
                                    t[1] = "-" /\ Stripped(t) \notin stop_words } } ]_vars

\* A call returned for a query with a stop word behind a minus sign, a word
\* behind a minus sign and the same word without one.
C14_Witness ==
    /\ last.op \in {"FindTopDocuments", "MatchDocument"}
    /\ last.outcome = "ok"
    /\ \E token \in Tokens(last.query) :
          token[1] = "-" /\ Stripped(token) \in stop_words
    /\ ParseQuery(last.query).plus_words # {}

----------------------------------------------------------------------------
(* Properties of MatchDocument                                             *)

\* C5: for a well-formed query MatchDocument fails exactly when the id is not
\* in the registry, and then with DocumentNotFound; for an id of the registry
\* it returns, also when a term of the query is no key of the inverted index.
C5_MatchFailsOnlyForUnknownId ==
    (last.op = "MatchDocument" /\ ~ParseQuery(last.query).error)
        => /\ (last.outcome # "ok") <=> (last.id \notin Ids)
           /\ (last.outcome # "ok")
                 => /\ last.outcome = "out_of_range"
                    /\ last.what = "This document id doesn't exist"

\* The plus-terms of the query with an entry for the id, and whether a
\* minus-term has one.
MatchedPlusWords(query, document_id) ==
    { word \in query.plus_words : HasEntry(word, document_id) }

HasMinusWord(query, document_id) ==
    \E word \in query.minus_words : HasEntry(word, document_id)

NoDuplicates(v) == \A i, j \in 1..Len(v) : v[i] = v[j] => i = j

\* C6: when the sequential MatchDocument returns, the status is the stored
\* status of the document; the words are none when a minus-term of the query
\* has an entry for the id, and else the plus-terms with an entry, each once.
C6_MatchResult ==
    (last.op = "MatchDocument" /\ last.policy = "seq" /\ last.outcome = "ok")
        => LET query == ParseQuery(last.query) IN
           /\ last.status = documents[last.id].status
           /\ NoDuplicates(last.words)
           /\ Elements(last.words) =
                 IF HasMinusWord(query, last.id) THEN {}
                 ELSE MatchedPlusWords(query, last.id)

\* MatchDocument returned two matched words.
C6_Witness ==
    /\ last.op = "MatchDocument" /\ last.policy = "seq" /\ last.outcome = "ok"
    /\ Len(last.words) = 2

----------------------------------------------------------------------------
(* Properties of FindTopDocuments under either policy                      *)

\* C4: no document with an inverted-index entry under a minus-term of the
\* query is in the result of FindTopDocuments, under either policy, also when
\* it has plus-terms of the query and satisfies the predicate.
C4_MinusTermExcludes ==
    (last.op = "FindTopDocuments" /\ last.outcome = "ok")
        => \A i \in 1..Len(last.docs) :
              ~HasMinusWord(ParseQuery(last.query), last.docs[i].id)

\* A parallel call returned a document while another document, with a
\* plus-term and a minus-term of the query and satisfying the predicate, is
\* stored.
C4_Witness ==
    /\ last.op = "FindTopDocuments" /\ last.policy = "par" /\ last.outcome = "ok"
    /\ Len(last.docs) > 0
    /\ \E document_id \in DOMAIN documents :
          /\ HasMinusWord(ParseQuery(last.query), document_id)
          /\ MatchedPlusWords(ParseQuery(last.query), document_id) # {}
          /\ PassesPredicate(last.pred, document_id)

\* The sum of term_freq * idf over the given words the document has.
RECURSIVE SumOfTermRelevance(_, _)
SumOfTermRelevance(words, document_id) ==
    IF words = {} THEN 0
    ELSE LET word == CHOOSE w \in words : TRUE IN
         word_to_document_freqs[word][document_id]
             * (LnTable[GetDocumentCount]
                   - LnTable[Cardinality(DOMAIN word_to_document_freqs[word])])
           + SumOfTermRelevance(words \ {word}, document_id)

\* C10: under the parallel policy, when the third for_each of
\* FindAllDocuments has returned, each document of the result vector has the
\* sum of term_freq * idf over the plus-terms it contains as its relevance,
\* each materialized document is in one slot, and the documents are those
\* the sequential FindAllDocuments returns.
C10_ParallelFindAllDocuments ==
    (phase = "sort" /\ run.op = "FindTopDocuments")
        => LET sequential == FindAllDocuments(run, run.pred) IN
           /\ Len(matched_documents) = Len(sequential)
           /\ Elements(matched_documents) = Elements(sequential)
           /\ \A i, j \in 1..Len(matched_documents) :
                 matched_documents[i].id = matched_documents[j].id => i = j
           /\ \A i \in 1..Len(matched_documents) :
                 LET document_id == matched_documents[i].id IN
                 /\ document_id \in DOMAIN documents
                 /\ matched_documents[i].relevance =
                       SumOfTermRelevance(MatchedPlusWords(run, document_id),
                                          document_id)
                 /\ matched_documents[i].rating = documents[document_id].rating

\* Two documents are materialized, one of them with two plus-terms of the
\* query and a relevance above 0.
C10_Witness ==
    /\ phase = "sort" /\ run.op = "FindTopDocuments"
    /\ Len(matched_documents) = 2
    /\ \E i \in 1..Len(matched_documents) :
          /\ Cardinality(MatchedPlusWords(run, matched_documents[i].id)) = 2
          /\ matched_documents[i].relevance > 0

\* The stored documents with an entry under a plus-term of the query, that
\* satisfy the predicate and have no entry under a minus-term.
Qualifying(query, pred) ==
    { document_id \in DOMAIN documents :
        /\ MatchedPlusWords(query, document_id) # {}
        /\ PassesPredicate(pred, document_id)
        /\ ~HasMinusWord(query, document_id) }

IdsOf(v) == { v[i].id : i \in 1..Len(v) }

\* C11: the ids FindAllDocuments produces are exactly those of the stored
\* documents with an entry under a plus-term, satisfying the predicate and
\* with no entry under a minus-term, a relevance of 0 included; with at most
\* 5 such documents FindTopDocuments returns them all, each once.
C11_ResultIsQualifying ==
    /\ (phase = "sort" /\ run.op = "FindTopDocuments")
          => IdsOf(matched_documents) = Qualifying(run, run.pred)
    /\ (last.op = "FindTopDocuments" /\ last.outcome = "ok")
          => LET qualifying == Qualifying(ParseQuery(last.query), last.pred) IN
             Cardinality(qualifying) <= MAX_RESULT_DOCUMENT_COUNT
                => /\ IdsOf(last.docs) = qualifying
                   /\ Len(last.docs) = Cardinality(qualifying)

\* A call returned a document of relevance 0 while a stored document with a
\* plus-term of the query does not satisfy the predicate.
C11_Witness ==
    /\ last.op = "FindTopDocuments" /\ last.outcome = "ok"
    /\ \E i \in 1..Len(last.docs) : last.docs[i].relevance = 0
    /\ \E document_id \in DOMAIN documents :
          /\ MatchedPlusWords(ParseQuery(last.query), document_id) # {}
          /\ ~PassesPredicate(last.pred, document_id)

\* What the increments of the running call add up to, all of them done.
AllIncrements == AccumulatePlus(EmptyMap, PlusPairs(run), run.pred)

\* The ids whose erase is done.
ErasedIds == { t[2] : t \in { u \in DOMAIN tasks : tasks[u].pc = "done" } }

\* C15: the three phases of one FindAllDocuments are strictly ordered: from
\* the start of the erases on, every increment of the evaluation is done (no
\* value of the accumulator is short of an increment, no bucket is locked by
\* an incrementing task), and while the accumulator is materialized every
\* increment and every erase is done and no bucket is locked.
C15_PhasesAreOrdered ==
    /\ phase = "minus"
          => LET merged == BuildOrdinaryMap(document_to_relevance) IN
             /\ DOMAIN merged = (DOMAIN AllIncrements) \ ErasedIds
             /\ \A document_id \in DOMAIN merged :
                   merged[document_id] = AllIncrements[document_id]
             /\ \A b \in Buckets :
                   locks[b] # "free"
                      => /\ locks[b] \in DOMAIN tasks
                         /\ tasks[locks[b]].pc = "holding"
    /\ phase \in {"materialize", "sort"}
          => /\ BuildOrdinaryMap(document_to_relevance)
                   = EraseMinus(AllIncrements, MinusPairs(run))
             /\ \A b \in DOMAIN locks : locks[b] = "free"

\* The materialization runs after increments of two documents and an erase,
\* and one of its tasks has written its slot.
C15_Witness ==
    /\ phase = "materialize"
    /\ \E t \in DOMAIN tasks : tasks[t].pc = "done"
    /\ Cardinality(DOMAIN AllIncrements) = 2
    /\ MinusPairs(run) # {}
    /\ BuildOrdinaryMap(document_to_relevance) # <<>>

----------------------------------------------------------------------------
(* Properties of MatchDocument under the parallel policy                   *)

\* C9: MatchDocument under the parallel policy returns the set of matched
\* words and the status that the sequential policy returns, whatever the
\* interleaving of its tasks: no append of a matched plus-term is lost.
C9_ParallelMatchIsSequential ==
    (last.op = "MatchDocument" /\ last.policy = "par" /\ last.outcome = "ok")
        => LET query == ParseQuery(last.query) IN
           /\ last.status = documents[last.id].status
           /\ Elements(last.words) =
                 IF HasMinusWord(query, last.id) THEN {}
                 ELSE MatchedPlusWords(query, last.id)

----------------------------------------------------------------------------
(* Properties of the order of the result                                   *)

\* C19: the relation handed to the sort is a strict weak ordering on the
\* documents it is given: irreflexive, asymmetric and transitive.
C19_ComparatorIsStrictWeakOrdering ==
    phase = "sort"
        => \A a, b, c \in Elements(matched_documents) :
              /\ ~Before(a, a)
              /\ ~(Before(a, b) /\ Before(b, a))
              /\ (Before(a, b) /\ Before(b, c)) => Before(a, c)

\* C8: FindTopDocuments returns at most 5 documents, and of two adjacent
\* documents a, b of the result, a first: rating(a) >= rating(b) when their
\* relevances differ by less than 1e-6, and relevance(a) > relevance(b)
\* otherwise.
C8_TopDocumentsSorted ==
    (last.op = "FindTopDocuments" /\ last.outcome = "ok")
        => /\ Len(last.docs) <= MAX_RESULT_DOCUMENT_COUNT
           /\ \A i \in 1..(Len(last.docs) - 1) :
                 LET a == last.docs[i]
                     b == last.docs[i + 1]
                 IN IF Abs(a.relevance - b.relevance) < EPSILON
                    THEN a.rating >= b.rating
                    ELSE a.relevance > b.relevance

====
